---- MODULE Spec2Model ----
(***************************************************************************)
(* Plagiarism checker (src/main.py): the /check-plagiarism handler, its    *)
(* upload validation, the summarizer-output parser and the duplicate       *)
(* decision loop.                                                          *)
(*                                                                         *)
(* Text is a sequence of items.  A filename is a sequence of characters.   *)
(* A summarizer output is a sequence whose items are the two markers       *)
(* "SUMMARY:" and "SKILLS:" and single characters.  Neither marker has a   *)
(* proper prefix that is also a suffix of itself or of the other marker,   *)
(* so the occurrences str.split and str.replace find in a Python string    *)
(* never overlap and the item sequence determines them.                    *)
(*                                                                         *)
(* Scores are integers in units of 10^-5: 0.75 is 75000, 1.0 is 100000.    *)
(***************************************************************************)
EXTENDS Integers, Sequences, FiniteSets, TLC

VARIABLES
    corpus,     \* the Pinecone index: sequence of stored documents
    nreq,       \* number of requests received so far
    pc,         \* pc[w]: position of worker w in check_plagiarism
    upload,     \* upload[w]: the UploadFile of the current request
    output,     \* output[w]: what chain.invoke returned
    new_doc,    \* new_doc[w]: the Document built from the parsed output
    results,    \* results[w]: what similarity_search_with_score returned
    decision,   \* decision[w]: plagiarism_detected, matched_files, max_score
    insert,     \* insert[w]: outcome of the try block around add_documents
    response,   \* response[w]: status and body sent to the client
    calls,      \* calls[w]: collaborator calls made for the current request
    parseIn,    \* argument of parse_chain_output (parser specification)
    parseOut,   \* its result
    matchesIn,  \* results handed to the decision loop (decision specification)
    decOut      \* its result

vars == <<corpus, nreq, pc, upload, output, new_doc, results, decision,
          insert, response, calls, parseIn, parseOut, matchesIn, decOut>>

reqVars == <<corpus, nreq, pc, upload, output, new_doc, results, decision,
             insert, response, calls>>

\* ---------------------------------------------------------------- bounds

\* Concurrent handler invocations (worker processes sharing the index).
NumWorkers == 2
\* Requests received in one behaviour.
MaxRequests == 2
\* Longest summarizer output, in items, of the parser specification.
MaxLen == 4
\* Longest summarizer output, in items, of the single-request specification.
MaxOutLen == 3
\* Requests received in one behaviour of the empty-corpus specification.
MaxSeqRequests == 5

Workers == 1 .. NumWorkers

\* ------------------------------------------------------- Python values

\* Python's None, as a sequence no text is equal to (text items are single
\* characters or markers).
None == <<"None">>

\* Truth value of an Optional[str]: None and "" are falsy.
Truthy(x) == x # None /\ x # <<>>

InSeq(x, s) == \E i \in 1 .. Len(s) : s[i] = x

Range(s) == {s[i] : i \in 1 .. Len(s)}

\* All sequences over S of length at most n.
SeqsUpTo(S, n) == UNION {[1 .. m -> S] : m \in 0 .. n}

\* ------------------------------------------------------------ constants

MAX_FILE_SIZE == 10485760
threshold == 75000
SearchK == 3

SUMMARY == "SUMMARY:"
SKILLS == "SKILLS:"

\* ------------------------------------------------------ validate_file

\* str.lower on one character.
LowerChar(c) ==
    CASE c = "A" -> "a"
      [] c = "P" -> "p"
      [] c = "D" -> "d"
      [] c = "F" -> "f"
      [] c = "T" -> "t"
      [] c = "X" -> "x"
      [] OTHER -> c

\* str.lower
Lower(s) == [i \in 1 .. Len(s) |-> LowerChar(s[i])]

\* str.endswith
EndsWith(s, suffix) ==
    /\ Len(s) >= Len(suffix)
    /\ SubSeq(s, Len(s) - Len(suffix) + 1, Len(s)) = suffix

DotPdf == <<".", "p", "d", "f">>

SizeTooLargeOff(size) == FALSE

\* if file.size and file.size > MAX_FILE_SIZE
SizeTooLarge(size) == size # 0 /\ size > MAX_FILE_SIZE

\* if file.content_type and file.content_type not in ['application/pdf']
ContentTypeBad(ct) == Truthy(ct) /\ ct \notin {<<"application/pdf">>}

\* The status validate_file raises, 0 when it returns normally.
validate_file(file) ==
    IF SizeTooLarge(file.size) THEN 413
    ELSE IF ~Truthy(file.filename) THEN 400
    ELSE IF ~EndsWith(Lower(file.filename), DotPdf) THEN 400
    ELSE IF ContentTypeBad(file.content_type) THEN 400
    ELSE 0

\* ------------------------------------------------- parse_chain_output

IsSpace(c) == c \in {" ", "\n"}

RECURSIVE LStrip(_)
LStrip(s) ==
    IF s # <<>> /\ IsSpace(Head(s)) THEN LStrip(Tail(s)) ELSE s

RECURSIVE RStrip(_)
RStrip(s) ==
    IF s # <<>> /\ IsSpace(s[Len(s)]) THEN RStrip(SubSeq(s, 1, Len(s) - 1)) ELSE s

\* str.strip
Strip(s) == LStrip(RStrip(s))

\* str.replace(marker, ""): the items of s other than the marker.
RemoveAll(s, marker) == SelectSeq(s, LAMBDA x : x # marker)

\* str.split(marker): the parts between the occurrences of the marker; one
\* part more than there are occurrences.
RECURSIVE SplitFrom(_, _, _, _, _)
SplitFrom(s, marker, i, cur, acc) ==
    IF i > Len(s) THEN Append(acc, cur)
    ELSE IF s[i] = marker THEN SplitFrom(s, marker, i + 1, <<>>, Append(acc, cur))
    ELSE SplitFrom(s, marker, i + 1, Append(cur, s[i]), acc)

Split(s, marker) == SplitFrom(s, marker, 1, <<>>, <<>>)

SummaryMissingOff(summary_text) == FALSE

\* if not summary_text
SummaryMissing(summary_text) == summary_text = <<>>

\* parse_chain_output: status 0 and the pair, or the status of the
\* HTTPException the except clause raises.
parse_chain_output(out) ==
    LET parts == Split(out, SKILLS)
        summary_text == Strip(RemoveAll(parts[1], SUMMARY))
        skills == IF Len(parts) > 1 THEN Strip(parts[2]) ELSE <<>>
    IN  IF SummaryMissing(summary_text)
        THEN [status |-> 500, summary_text |-> <<>>, skills |-> <<>>]
        ELSE [status |-> 0, summary_text |-> summary_text, skills |-> skills]

\* ------------------------------------------------------ decision loop

NoDecision == [plagiarism_detected |-> FALSE, matched_files |-> <<>>, max_score |-> 0]

ScoreHitsStrict(score) == score > threshold

\* if score >= threshold
ScoreHits(score) == score >= threshold

NextMaxHitsOnly(max_score, score) ==
    IF score > max_score /\ score >= threshold THEN score ELSE max_score

\* if score > max_score: max_score = score
NextMax(max_score, score) == IF score > max_score THEN score ELSE max_score

NextMatchedNoDedup(matched_files, source_file) ==
    IF Truthy(source_file) THEN Append(matched_files, source_file) ELSE matched_files

NextMatchedAny(matched_files, source_file) ==
    IF ~InSeq(source_file, matched_files)
    THEN Append(matched_files, source_file) ELSE matched_files

\* if source_file and source_file not in matched_files: append
NextMatched(matched_files, source_file) ==
    IF Truthy(source_file) /\ ~InSeq(source_file, matched_files)
    THEN Append(matched_files, source_file) ELSE matched_files

\* One iteration of "for doc, score in results".
LoopBody(st, m) ==
    [plagiarism_detected |-> st.plagiarism_detected \/ ScoreHits(m.score),
     matched_files |-> IF ScoreHits(m.score)
                       THEN NextMatched(st.matched_files, m.source_file)
                       ELSE st.matched_files,
     max_score |-> NextMax(st.max_score, m.score)]

RECURSIVE AnalyzeFrom(_, _, _)
AnalyzeFrom(res, i, st) ==
    IF i > Len(res) THEN st ELSE AnalyzeFrom(res, i + 1, LoopBody(st, res[i]))

\* Lines 255-268: the three locals after the loop over the results.
AnalyzeResults(res) == AnalyzeFrom(res, 1, NoDecision)

\* round(max_score, 4), for scores that are no tie between two 4-digit values.
Round4(x) == ((x + 5) \div 10) * 10

\* ------------------------------------------------------- collaborators

\* The embedder and the index metric: a fixed symmetric similarity of two
\* summaries, 1.0 for equal text.
Sim(x, y) ==
    IF x = y THEN 100000
    ELSE IF x # <<>> /\ y # <<>> /\ Head(x) = Head(y) THEN 75000
    ELSE IF Len(x) = Len(y) THEN 74999
    ELSE 30004

Min(a, b) == IF a < b THEN a ELSE b

\* vector_store.similarity_search_with_score(summary_text, k): the k stored
\* documents most similar to the query, best first; the order among equal
\* scores is the index's choice.
SimilaritySearch(store, query, k) ==
    LET n == Min(k, Len(store))
        sc(i) == Sim(query, store[i].page_content)
        picks == {s \in [1 .. n -> 1 .. Len(store)] :
                    /\ \A i, j \in 1 .. n : i < j => s[i] # s[j] /\ sc(s[i]) >= sc(s[j])
                    /\ \A i \in 1 .. n : \A x \in 1 .. Len(store) :
                          (\A j \in 1 .. n : s[j] # x) => sc(x) <= sc(s[i])}
    IN  {[i \in 1 .. n |-> [score |-> sc(s[i]), source_file |-> store[s[i]].source_file]] :
            s \in picks}

\* ------------------------------------------------------------- inputs

FileNames ==
    { None, <<>>,
      <<"a", ".", "p", "d", "f">>, <<"b", ".", "P", "d", "F">>,
      <<"a", ".", "t", "x", "t">>, <<"p", "d", "f">>,
      <<"a", ".", "p", "d", "f", "x">>, <<"a", ".", "p", "d">> }

ContentTypes ==
    { None, <<>>, <<"application/pdf">>, <<"text/plain">>, <<"application/PDF">> }

Sizes == {0, MAX_FILE_SIZE, MAX_FILE_SIZE + 1}

Uploads == [filename : FileNames, content_type : ContentTypes, size : Sizes]

\* What extract_full_pdf_text does: returns text (status 0) or raises.
ExtractOutcomes ==
    { [status |-> 0, detail |-> ""],
      [status |-> 400, detail |-> "PDF file contains no pages"],
      [status |-> 400, detail |-> "PDF file contains no extractable text"],
      [status |-> 400, detail |-> "Invalid PDF file format"],
      [status |-> 500, detail |-> "Failed to extract text from PDF"] }

Items == {SUMMARY, SKILLS, " ", "a", "b"}

\* Summarizer outputs of the request pipeline.
ChainOutputs ==
    { <<SUMMARY, "\n", "a", "\n", "\n", SKILLS, "\n", "b">>,
      <<SUMMARY, "\n", "a", "b">>,
      <<SUMMARY, "b", SKILLS, "a", SKILLS, "b">>,
      <<"b", "a", SKILLS>>,
      <<SUMMARY, "\n">>,
      <<SKILLS, "b">>,
      <<>> }

\* What the try block around add_documents does: the insert succeeds, the
\* insert raises, or the insert succeeds and describe_index_stats raises.
InsertOutcomes == {"added", "add_raised", "stats_raised"}

\* Documents already in the index when the process starts (the index is
\* created only if absent).  One was stored without a source_file.
Stored(content, file) ==
    [page_content |-> content, source_file |-> file, skills |-> <<>>, file_size |-> 1]

OldFile == <<"o", ".", "p", "d", "f">>

InitialCorpora ==
    { <<>>,
      <<Stored(<<"a">>, OldFile)>>,
      <<Stored(<<"a">>, OldFile), Stored(<<"a", "b">>, OldFile),
        Stored(<<"b">>, None), Stored(<<"b", "a">>, <<"p", ".", "p", "d", "f">>)>> }

\* -------------------------------------------------------- request state

NoUpload == [filename |-> None, content_type |-> None, size |-> 0]
NoDoc == [page_content |-> <<>>, source_file |-> None, skills |-> <<>>, file_size |-> 0]
NoResponse == [status |-> 0, body |-> [detail |-> ""]]
NoCalls == [extract |-> 0, chain |-> 0, search |-> 0, add |-> 0]
NoParse == [done |-> FALSE, status |-> 0, summary_text |-> <<>>, skills |-> <<>>]
NoAnalysis == [done |-> FALSE, plagiarism_detected |-> FALSE,
               matched_files |-> <<>>, max_score |-> 0]

ErrorResponseNoStatus(status, detail) == [status |-> 200, body |-> [detail |-> detail]]

\* raise HTTPException(status, detail); the handler registered for 413
\* replaces the detail.
ErrorResponse(status, detail) ==
    [status |-> status,
     body |-> [detail |-> IF status = 413 THEN "File too large" ELSE detail]]

ValidationDetail(file) ==
    IF SizeTooLarge(file.size) THEN "File size too large (max 10MB)"
    ELSE IF ~Truthy(file.filename) THEN "Filename is required"
    ELSE IF ~EndsWith(Lower(file.filename), DotPdf) THEN "Only PDF files are supported"
    ELSE "Invalid content type. Expected application/pdf"

ShouldInsertAlways(d) == TRUE

\* if not plagiarism_detected
ShouldInsert(d) == ~d.plagiarism_detected

\* "document_added": not plagiarism_detected
DocumentAdded(d) == ~d.plagiarism_detected

\* Lines 285-294: the response of a request that reached the decision.
ResultResponse(d) ==
    [status |-> 200,
     body |-> [plagiarism_detected |-> d.plagiarism_detected,
               max_score |-> Round4(d.max_score),
               matched_files |-> d.matched_files,
               threshold |-> threshold,
               document_added |-> DocumentAdded(d)]]

AddDocumentsIfNovel(store, doc) ==
    IF \E i \in 1 .. Len(store) : Sim(store[i].page_content, doc.page_content) >= threshold
    THEN store ELSE Append(store, doc)

\* vector_store.add_documents([new_doc]): the document is stored, whatever
\* the index holds by then.
AddDocuments(store, doc) == Append(store, doc)

InsertErrorRaises(outcome) == outcome # "added"

\* except Exception around add_documents: logged, never re-raised.
InsertErrorPropagates(outcome) == FALSE

\* ----------------------------------------------- check_plagiarism steps

\* A request arrives at worker w: the per-request state starts afresh and
\* validate_file runs (lines 217-219).
Receive(w, file, limit) ==
    /\ pc[w] \in {"idle", "done"}
    /\ nreq < limit
    /\ nreq' = nreq + 1
    /\ upload' = [upload EXCEPT ![w] = file]
    /\ output' = [output EXCEPT ![w] = None]
    /\ new_doc' = [new_doc EXCEPT ![w] = NoDoc]
    /\ results' = [results EXCEPT ![w] = <<>>]
    /\ decision' = [decision EXCEPT ![w] = NoDecision]
    /\ insert' = [insert EXCEPT ![w] = "none"]
    /\ calls' = [calls EXCEPT ![w] = NoCalls]
    /\ IF validate_file(file) # 0
       THEN /\ pc' = [pc EXCEPT ![w] = "done"]
            /\ response' = [response EXCEPT ![w] =
                   ErrorResponse(validate_file(file), ValidationDetail(file))]
       ELSE /\ pc' = [pc EXCEPT ![w] = "extract"]
            /\ response' = [response EXCEPT ![w] = NoResponse]
    /\ UNCHANGED <<corpus, parseIn, parseOut, matchesIn, decOut>>

\* file.read() and extract_full_pdf_text (lines 222-226).
Extract(w, outcome) ==
    /\ pc[w] = "extract"
    /\ calls' = [calls EXCEPT ![w].extract = @ + 1]
    /\ IF outcome.status # 0
       THEN /\ pc' = [pc EXCEPT ![w] = "done"]
            /\ response' = [response EXCEPT ![w] =
                   ErrorResponse(outcome.status, outcome.detail)]
       ELSE /\ pc' = [pc EXCEPT ![w] = "chain"]
            /\ UNCHANGED response
    /\ UNCHANGED <<corpus, nreq, upload, output, new_doc, results, decision, insert,
                   parseIn, parseOut, matchesIn, decOut>>

\* chain.invoke raises (lines 229-233).
ChainFails(w) ==
    /\ pc[w] = "chain"
    /\ calls' = [calls EXCEPT ![w].chain = @ + 1]
    /\ pc' = [pc EXCEPT ![w] = "done"]
    /\ response' = [response EXCEPT ![w] =
           ErrorResponse(500, "Failed to process document with AI model")]
    /\ UNCHANGED <<corpus, nreq, upload, output, new_doc, results, decision, insert,
                   parseIn, parseOut, matchesIn, decOut>>

\* chain.invoke returns out; parse_chain_output and Document (lines 230-246).
ChainReturns(w, out) ==
    /\ pc[w] = "chain"
    /\ calls' = [calls EXCEPT ![w].chain = @ + 1]
    /\ output' = [output EXCEPT ![w] = out]
    /\ LET p == parse_chain_output(out)
       IN  IF p.status # 0
           THEN /\ pc' = [pc EXCEPT ![w] = "done"]
                /\ response' = [response EXCEPT ![w] =
                       ErrorResponse(p.status, "Failed to process document content")]
                /\ UNCHANGED new_doc
           ELSE /\ pc' = [pc EXCEPT ![w] = "search"]
                /\ new_doc' = [new_doc EXCEPT ![w] =
                       [page_content |-> p.summary_text,
                        source_file |-> upload[w].filename,
                        skills |-> p.skills,
                        file_size |-> upload[w].size]]
                /\ UNCHANGED response
    /\ UNCHANGED <<corpus, nreq, upload, results, decision, insert,
                   parseIn, parseOut, matchesIn, decOut>>

\* similarity_search_with_score raises (lines 249-253).
SearchFails(w) ==
    /\ pc[w] = "search"
    /\ calls' = [calls EXCEPT ![w].search = @ + 1]
    /\ pc' = [pc EXCEPT ![w] = "done"]
    /\ response' = [response EXCEPT ![w] =
           ErrorResponse(500, "Failed to search for similar documents")]
    /\ UNCHANGED <<corpus, nreq, upload, output, new_doc, results, decision, insert,
                   parseIn, parseOut, matchesIn, decOut>>

\* The search returns and the results are analyzed (lines 250-271); a
\* duplicate is answered at once (lines 285-294).
SearchReturns(w) ==
    /\ pc[w] = "search"
    /\ calls' = [calls EXCEPT ![w].search = @ + 1]
    /\ \E res \in SimilaritySearch(corpus, new_doc[w].page_content, SearchK) :
          LET d == AnalyzeResults(res)
          IN  /\ results' = [results EXCEPT ![w] = res]
              /\ decision' = [decision EXCEPT ![w] = d]
              /\ IF ShouldInsert(d)
                 THEN /\ pc' = [pc EXCEPT ![w] = "insert"]
                      /\ UNCHANGED response
                 ELSE /\ pc' = [pc EXCEPT ![w] = "done"]
                      /\ response' = [response EXCEPT ![w] = ResultResponse(d)]
    /\ UNCHANGED <<corpus, nreq, upload, output, new_doc, insert,
                   parseIn, parseOut, matchesIn, decOut>>

\* add_documents, describe_index_stats and the response (lines 272-294).
Insert(w, outcome) ==
    /\ pc[w] = "insert"
    /\ calls' = [calls EXCEPT ![w].add = @ + 1]
    /\ insert' = [insert EXCEPT ![w] = outcome]
    /\ corpus' = IF outcome = "add_raised" THEN corpus ELSE AddDocuments(corpus, new_doc[w])
    /\ pc' = [pc EXCEPT ![w] = "done"]
    /\ response' = [response EXCEPT ![w] =
           IF InsertErrorPropagates(outcome)
           THEN ErrorResponse(500, "Internal server error")
           ELSE ResultResponse(decision[w])]
    /\ UNCHANGED <<nreq, upload, output, new_doc, results, decision,
                   parseIn, parseOut, matchesIn, decOut>>

\* ------------------------------------------------------- specifications

InitRequest ==
    /\ nreq = 0
    /\ pc = [w \in Workers |-> "idle"]
    /\ upload = [w \in Workers |-> NoUpload]
    /\ output = [w \in Workers |-> None]
    /\ new_doc = [w \in Workers |-> NoDoc]
    /\ results = [w \in Workers |-> <<>>]
    /\ decision = [w \in Workers |-> NoDecision]
    /\ insert = [w \in Workers |-> "none"]
    /\ response = [w \in Workers |-> NoResponse]
    /\ calls = [w \in Workers |-> NoCalls]

Init ==
    /\ corpus \in InitialCorpora
    /\ InitRequest
    /\ parseIn = <<>>
    /\ parseOut = NoParse
    /\ matchesIn = <<>>
    /\ decOut = NoAnalysis

\* One server process: the handler has no suspension point after file.read(),
\* so its requests run one after another.
Server == 1

Next ==
    \/ \E file \in Uploads : Receive(Server, file, MaxRequests)
    \/ \E outcome \in ExtractOutcomes : Extract(Server, outcome)
    \/ ChainFails(Server)
    \/ \E out \in ChainOutputs : ChainReturns(Server, out)
    \/ SearchFails(Server)
    \/ SearchReturns(Server)
    \/ \E outcome \in InsertOutcomes : Insert(Server, outcome)

Spec == Init /\ [][Next]_vars

\* One request, with every summarizer output of up to MaxOutLen items.
NextRequest ==
    \/ \E file \in Uploads : Receive(Server, file, 1)
    \/ \E outcome \in ExtractOutcomes : Extract(Server, outcome)
    \/ ChainFails(Server)
    \/ \E out \in SeqsUpTo(Items, MaxOutLen) : ChainReturns(Server, out)
    \/ SearchFails(Server)
    \/ SearchReturns(Server)
    \/ \E outcome \in InsertOutcomes : Insert(Server, outcome)

SpecRequest == Init /\ [][NextRequest]_vars

\* parse_chain_output applied to every output of up to MaxLen items.
InitParse ==
    /\ corpus = <<>>
    /\ InitRequest
    /\ parseIn \in SeqsUpTo(Items, MaxLen)
    /\ parseOut = NoParse
    /\ matchesIn = <<>>
    /\ decOut = NoAnalysis

Parse ==
    /\ ~parseOut.done
    /\ parseOut' = [done |-> TRUE] @@ parse_chain_output(parseIn)
    /\ UNCHANGED <<reqVars, parseIn, matchesIn, decOut>>

SpecParse == InitParse /\ [][Parse]_vars

\* The decision loop applied to every list of up to SearchK matches.
Scores == {-20000, 0, 30000, 50000, 74999, 75000, 85004, 100000}

Sources == {None, <<>>, <<"A">>, <<"B">>}

Matches == [score : Scores, source_file : Sources]

InitDecide ==
    /\ corpus = <<>>
    /\ InitRequest
    /\ parseIn = <<>>
    /\ parseOut = NoParse
    /\ matchesIn \in SeqsUpTo(Matches, SearchK)
    /\ decOut = NoAnalysis

Analyze ==
    /\ ~decOut.done
    /\ decOut' = [done |-> TRUE] @@ AnalyzeResults(matchesIn)
    /\ UNCHANGED <<reqVars, parseIn, parseOut, matchesIn>>

SpecDecide == InitDecide /\ [][Analyze]_vars

\* Several server processes share the index: nothing in the handler orders
\* the search of one request and the insert of another.
ConcUploads ==
    { [filename |-> <<"a", ".", "p", "d", "f">>, content_type |-> <<"application/pdf">>,
       size |-> MAX_FILE_SIZE],
      [filename |-> <<"b", ".", "P", "d", "F">>, content_type |-> None, size |-> 0],
      [filename |-> <<"a", ".", "t", "x", "t">>, content_type |-> <<"text/plain">>,
       size |-> 0] }

ConcOutputs ==
    { <<SUMMARY, "\n", "a", "\n", "\n", SKILLS, "\n", "b">>,
      <<SUMMARY, "\n", "a", "b">>,
      <<"b", "a", SKILLS>>,
      <<SUMMARY, "\n">> }

InitConc ==
    /\ corpus = <<>>
    /\ InitRequest
    /\ parseIn = <<>>
    /\ parseOut = NoParse
    /\ matchesIn = <<>>
    /\ decOut = NoAnalysis

NextConc ==
    \E w \in Workers :
        \/ \E file \in ConcUploads : Receive(w, file, MaxRequests)
        \/ \E outcome \in ExtractOutcomes : Extract(w, outcome)
        \/ ChainFails(w)
        \/ \E out \in ConcOutputs : ChainReturns(w, out)
        \/ SearchFails(w)
        \/ SearchReturns(w)
        \/ \E outcome \in InsertOutcomes : Insert(w, outcome)

SpecConc == InitConc /\ [][NextConc]_vars

\* One server process starting on a newly created, empty index; summaries on
\* five topics, two of them on the same one.
SeqUploads ==
    { [filename |-> <<"a", ".", "p", "d", "f">>, content_type |-> <<"application/pdf">>,
       size |-> MAX_FILE_SIZE],
      [filename |-> <<"a", ".", "t", "x", "t">>, content_type |-> <<"text/plain">>,
       size |-> 0] }

SeqOutputs ==
    { <<SUMMARY, "a", SKILLS, "b">>,
      <<SUMMARY, "a", "b">>,
      <<SUMMARY, "b">>,
      <<SUMMARY, "c">>,
      <<"d", SKILLS>>,
      <<"e">>,
      <<SUMMARY, "\n">> }

NextSeq ==
    \/ \E file \in SeqUploads : Receive(Server, file, MaxSeqRequests)
    \/ \E outcome \in ExtractOutcomes : Extract(Server, outcome)
    \/ ChainFails(Server)
    \/ \E out \in SeqOutputs : ChainReturns(Server, out)
    \/ SearchFails(Server)
    \/ SearchReturns(Server)
    \/ \E outcome \in InsertOutcomes : Insert(Server, outcome)

SpecSeq == InitConc /\ [][NextSeq]_vars

\* --------------------------------------------------------------- claims

Decided(w) == pc[w] = "insert" \/ (pc[w] = "done" /\ response[w].status = 200)

\* C1: for every request that reaches the decision, add_documents is invoked
\* if and only if the decision is "no duplicate", and at most once: a finished
\* request has made one insert call when plagiarism_detected is false and none
\* when it is true, and no request ever makes a second one.
C1_InsertIffNovel ==
    \A w \in Workers :
        /\ calls[w].add <= 1
        /\ calls[w].add = 1 => Decided(w) /\ ~decision[w].plagiarism_detected
        /\ (pc[w] = "done" /\ response[w].status = 200) =>
              /\ calls[w].add = 1 <=> ~response[w].body.plagiarism_detected
              /\ response[w].body.plagiarism_detected = decision[w].plagiarism_detected

C1_Witness ==
    \E w \in Workers :
        /\ pc[w] = "done" /\ response[w].status = 200
        /\ ~response[w].body.plagiarism_detected
        /\ calls[w].add = 1

HasHit(ms) == \E i \in 1 .. Len(ms) : ms[i].score >= 75000

Reorderings(ms) ==
    {[i \in 1 .. Len(ms) |-> ms[f[i]]] : f \in Permutations(1 .. Len(ms))}

\* C2: for every list of up to 3 matches, plagiarism_detected is true if and
\* only if some match has score >= 0.75 (0.75 itself included), and every
\* reordering of the list gives the same boolean.
C2_DetectedIffHit ==
    decOut.done =>
        /\ decOut.plagiarism_detected <=> HasHit(matchesIn)
        /\ \A p \in Reorderings(matchesIn) :
              AnalyzeResults(p).plagiarism_detected = decOut.plagiarism_detected

C2_Witness ==
    /\ decOut.done
    /\ decOut.plagiarism_detected
    /\ Len(matchesIn) = 3
    /\ matchesIn[3].score = 75000
    /\ matchesIn[1].score < 75000 /\ matchesIn[2].score < 75000

HasNamedHit(ms) ==
    \E i \in 1 .. Len(ms) : ms[i].score >= 75000 /\ Truthy(ms[i].source_file)

\* C3 as stated: duplicateDetected if and only if matchedFiles is non-empty,
\* if and only if some match has score >= threshold, for every list of
\* matches, those with a missing or empty source_file included.
C3_Original ==
    decOut.done =>
        /\ decOut.plagiarism_detected <=> decOut.matched_files # <<>>
        /\ decOut.matched_files # <<>> <=> HasHit(matchesIn)

\* C3 amended: duplicateDetected if and only if some match has score >=
\* threshold; matchedFiles is non-empty if and only if some match with score
\* >= threshold has a non-empty source_file.
C3_DetectedAndNamed ==
    decOut.done =>
        /\ decOut.plagiarism_detected <=> HasHit(matchesIn)
        /\ decOut.matched_files # <<>> <=> HasNamedHit(matchesIn)

C3_Witness ==
    /\ decOut.done
    /\ decOut.plagiarism_detected
    /\ decOut.matched_files = <<>>
    /\ \E i \in 1 .. Len(matchesIn) :
          matchesIn[i].score >= 75000 /\ matchesIn[i].source_file = None

NamedHitAt(ms, i) == ms[i].score >= 75000 /\ Truthy(ms[i].source_file)

FirstHitOf(ms, f) ==
    CHOOSE i \in 1 .. Len(ms) :
        /\ NamedHitAt(ms, i) /\ ms[i].source_file = f
        /\ \A j \in 1 .. i - 1 : ~(NamedHitAt(ms, j) /\ ms[j].source_file = f)

\* C4: matched_files holds exactly the source files of the matches with score
\* >= threshold (a match stored without a source file, or with an empty one,
\* has none to list), each once, in the order of their first occurrence in
\* the match list.
C4_MatchedFiles ==
    decOut.done =>
        LET mf == decOut.matched_files
        IN  /\ \A f \in Sources :
                  InSeq(f, mf) <=>
                      \E i \in 1 .. Len(matchesIn) :
                          NamedHitAt(matchesIn, i) /\ matchesIn[i].source_file = f
            /\ Range(mf) \subseteq Sources
            /\ \A i, j \in 1 .. Len(mf) : i < j =>
                  /\ mf[i] # mf[j]
                  /\ FirstHitOf(matchesIn, mf[i]) < FirstHitOf(matchesIn, mf[j])

C4_Witness ==
    /\ decOut.done
    /\ Len(matchesIn) = 3
    /\ \A i \in 1 .. 3 : matchesIn[i].score >= 75000
    /\ matchesIn[1].source_file = <<"B">>
    /\ matchesIn[2].source_file = <<"A">>
    /\ matchesIn[3].source_file = <<"B">>
    /\ decOut.matched_files = <<<<"B">>, <<"A">>>>

InUnitRange(ms) == \A i \in 1 .. Len(ms) : ms[i].score >= 0 /\ ms[i].score <= 100000

Highest(ms) ==
    IF ms = <<>> THEN 0
    ELSE LET S == {ms[i].score : i \in 1 .. Len(ms)}
         IN  CHOOSE s \in S : \A t \in S : s >= t

\* C5: for scores in [0, 1], max_score before rounding is the highest score
\* of all returned matches, hit or not, and 0 for an empty list; the matches
\* [(A, 0.5), (B, 0.3)] give plagiarism_detected false, max_score 0.5 and no
\* matched files.
C5_MaxScore ==
    (decOut.done /\ InUnitRange(matchesIn)) =>
        /\ decOut.max_score = Highest(matchesIn)
        /\ matchesIn = <<[score |-> 50000, source_file |-> <<"A">>],
                         [score |-> 30000, source_file |-> <<"B">>]>> =>
              /\ ~decOut.plagiarism_detected
              /\ decOut.max_score = 50000
              /\ decOut.matched_files = <<>>

C5_Witness ==
    /\ decOut.done
    /\ matchesIn = <<[score |-> 30000, source_file |-> <<"B">>],
                     [score |-> 50000, source_file |-> <<"A">>]>>
    /\ decOut.max_score = 50000
    /\ ~decOut.plagiarism_detected

Near(a, b) == a - b <= 5 /\ b - a <= 5

\* C6: when the try block around the corpus insert raises, the request still
\* completes with status 200 and the response carries the plagiarism_detected,
\* max_score (to the 4 decimals of the response) and matched_files computed
\* from the search results before the insert attempt.
C6_InsertFailureIsolated ==
    \A w \in Workers :
        (pc[w] = "done" /\ insert[w] \in {"add_raised", "stats_raised"}) =>
            /\ response[w].status = 200
            /\ response[w].body.plagiarism_detected = HasHit(results[w])
            /\ response[w].body.plagiarism_detected = decision[w].plagiarism_detected
            /\ Near(response[w].body.max_score, Highest(results[w]))
            /\ Near(response[w].body.max_score, decision[w].max_score)
            /\ response[w].body.matched_files = decision[w].matched_files

C6_Witness ==
    \E w \in Workers :
        /\ pc[w] = "done" /\ insert[w] = "add_raised"
        /\ response[w].status = 200
        /\ results[w] # <<>>
        /\ response[w].body.max_score = 75000

\* C7: the response reports document_added = true only if this request's
\* insert succeeded (the document is in the corpus), and document_added =
\* false when the insert raised.
C7_DocumentAddedTruthful ==
    \A w \in Workers :
        (pc[w] = "done" /\ response[w].status = 200) =>
            /\ response[w].body.document_added =>
                  insert[w] \in {"added", "stats_raised"} /\ InSeq(new_doc[w], corpus)
            /\ insert[w] = "add_raised" => ~response[w].body.document_added

HasMarker(s) == InSeq(SKILLS, s)

FirstMarker(s) == CHOOSE i \in 1 .. Len(s) : s[i] = SKILLS /\ \A j \in 1 .. i - 1 : s[j] # SKILLS

AfterFirstMarker(s) == IF HasMarker(s) THEN SubSeq(s, FirstMarker(s) + 1, Len(s)) ELSE <<>>

BeforeFirstMarker(s) == IF HasMarker(s) THEN SubSeq(s, 1, FirstMarker(s) - 1) ELSE s

\* C8: for every summarizer output parse_chain_output accepts, skills is
\* everything after the first "SKILLS:" marker, whitespace-trimmed, also when
\* the marker occurs more than once, and empty when the marker is absent.
C8_SkillsAfterFirstMarker ==
    (parseOut.done /\ parseOut.status = 0) =>
        parseOut.skills = Strip(AfterFirstMarker(parseIn))

NoSummaryText(s) ==
    \A i \in 1 .. Len(BeforeFirstMarker(s)) : s[i] = SUMMARY \/ s[i] \in {" ", "\n"}

ParseFailed(w) ==
    /\ pc[w] = "done"
    /\ response[w] = [status |-> 500, body |-> [detail |-> "Failed to process document content"]]

\* C9: parse_chain_output fails exactly when the text before the first
\* "SKILLS:" marker, less "SUMMARY:" and surrounding whitespace, is empty; the
\* request then ends with status 500, the summarizer has been called once and
\* is not called again, and neither the search nor the insert is performed.
C9_EmptySummaryIsFatal ==
    \A w \in Workers :
        output[w] # None =>
            /\ ParseFailed(w) <=> NoSummaryText(output[w])
            /\ NoSummaryText(output[w]) =>
                  /\ calls[w].chain = 1 /\ calls[w].search = 0 /\ calls[w].add = 0
                  /\ new_doc[w] = NoDoc
                  /\ ~InSeq(new_doc[w], corpus)

C9_Witness ==
    \E w \in Workers :
        /\ output[w] = <<SUMMARY, " ", SKILLS>>
        /\ ParseFailed(w)
        /\ calls[w].chain = 1

ValidUpload(u) ==
    /\ u.filename # None
    /\ Len(u.filename) >= 4
    /\ LET n == Len(u.filename)
       IN  /\ u.filename[n - 3] = "."
           /\ u.filename[n - 2] \in {"p", "P"}
           /\ u.filename[n - 1] \in {"d", "D"}
           /\ u.filename[n] \in {"f", "F"}
    /\ u.content_type \in {None, <<>>, <<"application/pdf">>}
    /\ u.size <= 10 * 1024 * 1024

\* C10: a request that reaches the extractor, the summarizer or the corpus
\* has a non-empty filename ending in ".pdf" in any letter case, a content
\* type that is absent (or empty) or "application/pdf", and a size of at most
\* 10 MiB; a request violating any of these ends with a 4xx status and no
\* collaborator call.
C10_ValidatedBeforeCollaborators ==
    \A w \in Workers :
        pc[w] # "idle" =>
            /\ (pc[w] # "done" \/ calls[w] # NoCalls) => ValidUpload(upload[w])
            /\ ~ValidUpload(upload[w]) =>
                  /\ pc[w] = "done"
                  /\ response[w].status >= 400 /\ response[w].status <= 499
                  /\ calls[w] = NoCalls

C10_Witness ==
    \E w \in Workers :
        /\ pc[w] = "done"
        /\ upload[w].filename = <<"b", ".", "P", "d", "F">>
        /\ upload[w].size = 10 * 1024 * 1024 + 1
        /\ response[w].status = 413
        /\ calls[w] = NoCalls

Admitted(w) == pc[w] = "done" /\ insert[w] \in {"added", "stats_raised"}

\* C11: with two requests running in processes that share the corpus, nothing
\* makes a request at its search or its insert wait for another request, and
\* a request whose search saw no duplicate is admitted on that evidence alone:
\* once its insert succeeded its document is in the corpus, whatever was
\* inserted in between.  The interleaving of the claim (both search before
\* either inserts, both decide "no duplicate", both documents admitted
\* although mutually similar) is the state C11_Witness.
C11_NoMutualExclusion ==
    \A w \in Workers :
        /\ pc[w] = "search" => ENABLED SearchReturns(w)
        /\ pc[w] = "insert" => ENABLED Insert(w, "added")
        /\ Admitted(w) =>
              /\ InSeq(new_doc[w], corpus)
              /\ ~HasHit(results[w])
              /\ response[w].status = 200
              /\ ~response[w].body.plagiarism_detected

C11_Witness ==
    \E w1, w2 \in Workers :
        /\ w1 # w2
        /\ Admitted(w1) /\ Admitted(w2)
        /\ results[w1] = <<>> /\ results[w2] = <<>>
        /\ ~response[w1].body.plagiarism_detected
        /\ ~response[w2].body.plagiarism_detected
        /\ new_doc[w1].page_content # new_doc[w2].page_content
        /\ Sim(new_doc[w1].page_content, new_doc[w2].page_content) >= 75000
        /\ corpus = <<new_doc[w1], new_doc[w2]>>

\* Where a request stands in its corpus interaction.  SEARCHED and
\* INSERT_ATTEMPTED are passed inside the step that makes the call; they show
\* in the call counters.
PhaseOf(p, resp, ins, dec) ==
    IF p \in {"idle", "extract", "chain", "search"} THEN "BEFORE_SEARCH"
    ELSE IF p = "insert" /\ ins = "none" /\ ~dec.plagiarism_detected THEN "DECIDED_NOVEL"
    ELSE IF p = "done" /\ resp.status # 200 /\ ins = "none" THEN "ABORTED"
    ELSE IF p = "done" /\ resp.status = 200 /\ ins = "none" /\ dec.plagiarism_detected
         THEN "DECIDED_DUPLICATE"
    ELSE IF p = "done" /\ resp.status = 200 /\ ~dec.plagiarism_detected
            /\ ins \in {"added", "stats_raised"}
         THEN "INSERTED"
    ELSE IF p = "done" /\ resp.status = 200 /\ ~dec.plagiarism_detected /\ ins = "add_raised"
         THEN "INSERT_FAILED"
    ELSE "INVALID"

PhaseSteps ==
    { <<"BEFORE_SEARCH", "BEFORE_SEARCH">>, <<"BEFORE_SEARCH", "ABORTED">>,
      <<"BEFORE_SEARCH", "DECIDED_DUPLICATE">>, <<"BEFORE_SEARCH", "DECIDED_NOVEL">>,
      <<"DECIDED_NOVEL", "INSERTED">>, <<"DECIDED_NOVEL", "INSERT_FAILED">> }

RequestStep(w) ==
    LET a == PhaseOf(pc[w], response[w], insert[w], decision[w])
        b == PhaseOf(pc'[w], response'[w], insert'[w], decision'[w])
        searched == calls'[w].search - calls[w].search
        attempted == calls'[w].add - calls[w].add
    IN  \/ <<pc[w], response[w], insert[w], decision[w], results[w], calls[w]>>' =
           <<pc[w], response[w], insert[w], decision[w], results[w], calls[w]>>
        \/ \* the next request arrives
           /\ pc[w] \in {"idle", "done"}
           /\ nreq' = nreq + 1
           /\ calls'[w] = NoCalls
           /\ b \in {"BEFORE_SEARCH", "ABORTED"}
        \/ \* the request in progress moves on
           /\ pc[w] \notin {"idle", "done"}
           /\ nreq' = nreq
           /\ <<a, b>> \in PhaseSteps
           /\ searched \in {0, 1} /\ attempted \in {0, 1}
           /\ searched = 1 =>
                 a = "BEFORE_SEARCH" /\ calls[w].search = 0 /\ calls[w].add = 0
           /\ b \in {"DECIDED_DUPLICATE", "DECIDED_NOVEL"} => searched = 1
           /\ attempted = 1 <=> a = "DECIDED_NOVEL"
           /\ attempted = 1 => calls[w].search = 1 /\ calls[w].add = 0 /\ searched = 0

\* C12: a request's corpus interaction takes only the steps SEARCHED ->
\* DECIDED_DUPLICATE and SEARCHED -> DECIDED_NOVEL -> INSERT_ATTEMPTED ->
\* INSERTED or INSERT_FAILED: one search, before any insert attempt, one
\* insert attempt and only after DECIDED_NOVEL; DECIDED_DUPLICATE, INSERTED
\* and INSERT_FAILED are left only by the arrival of the next request, and no
\* request searches a second time.
C12_CorpusInteraction == [][\A w \in Workers : RequestStep(w)]_vars

C12_Witness ==
    \E w \in Workers :
        /\ PhaseOf(pc[w], response[w], insert[w], decision[w]) = "INSERT_FAILED"
        /\ calls[w].search = 1 /\ calls[w].add = 1
        /\ nreq = MaxRequests

ChainError == [status |-> 500, body |-> [detail |-> "Failed to process document with AI model"]]

SearchError == [status |-> 500, body |-> [detail |-> "Failed to search for similar documents"]]

UpstreamStep(w) ==
    /\ (ChainFails(w) \/ SearchFails(w)) =>
          /\ pc'[w] = "done"
          /\ response'[w].status = 500
          /\ DOMAIN response'[w].body = {"detail"}
          /\ decision'[w] = NoDecision /\ results'[w] = <<>>
          /\ corpus' = corpus
          /\ insert'[w] = "none" /\ calls'[w].add = 0
          /\ calls'[w].chain = 1 /\ calls'[w].search <= 1
    /\ (pc[w] = "done" /\ response[w] \in {ChainError, SearchError}) =>
          \/ <<pc[w], response[w], insert[w], calls[w]>>' =
             <<pc[w], response[w], insert[w], calls[w]>>
          \/ nreq' = nreq + 1 /\ calls'[w] = NoCalls

\* C13: when chain.invoke or the corpus search raises, the request ends in
\* that step with status 500 and a body that holds only the error detail (no
\* decision field), the corpus is unchanged and no insert has been or will be
\* invoked for the request, and the failed call is not made again: the
\* request stays as it ended until the next one arrives.
C13_UpstreamFailureAborts == [][\A w \in Workers : UpstreamStep(w)]_vars

C13_Witness ==
    \E w \in Workers :
        /\ pc[w] = "done"
        /\ response[w] = SearchError
        /\ calls[w] = [extract |-> 1, chain |-> 1, search |-> 1, add |-> 0]
        /\ corpus # <<>>

Copies(content) ==
    Cardinality({i \in 1 .. Len(corpus) : corpus[i].page_content = content})

\* C14: with requests processed strictly one after another, a search that
\* returns the 3 most similar entries and an initially empty corpus, no two
\* corpus entries have a mutual similarity >= 0.75; a request whose summary
\* is that of an admitted entry (a resubmission) is answered "duplicate" and
\* makes no insert call, so no summary is stored twice.
C14_NoSimilarPair ==
    /\ \A i, j \in 1 .. Len(corpus) :
          i # j => Sim(corpus[i].page_content, corpus[j].page_content) < 75000
    /\ \A w \in Workers :
          Decided(w) =>
              IF decision[w].plagiarism_detected
              THEN calls[w].add = 0 /\ response[w].body.plagiarism_detected
              ELSE Copies(new_doc[w].page_content) = IF Admitted(w) THEN 1 ELSE 0

C14_Witness ==
    \E w \in Workers :
        /\ Len(corpus) = 4
        /\ pc[w] = "done" /\ response[w].status = 200
        /\ response[w].body.plagiarism_detected
        /\ Len(results[w]) = 3
        /\ corpus[4].page_content = new_doc[w].page_content
        /\ calls[w].add = 0

====
